---- MODULE Spec2Model ----
(***************************************************************************)
(* Model of setup/linux_agent_installation.py, the installer of the pattoo *)
(* linux agent: the module-level location check, installation_checks(),    *)
(* get_pattoo_home(), the argparse command line built by Parser/_Install,  *)
(* and main()'s dispatch to configure.install, packages.install and        *)
(* systemd.install.                                                        *)
(*                                                                         *)
(* Paths are sequences of components: "/home/pattoo" is <<"home","pattoo">>*)
(* and os.path.join is concatenation.                                      *)
(***************************************************************************)
EXTENDS Naturals, Sequences, FiniteSets

VARIABLES
    argv,                 \* sys.argv[1:]
    user,                 \* getpass.getuser()
    cwd,                  \* os.getcwd()
    virtualenv_importable,\* whether "import virtualenv" succeeds
    pw_dir,               \* pwd.getpwnam('pattoo').pw_dir, or NoEntry
    EXEC_DIR,             \* directory of the script, line 11
    pc,                   \* position of the process
    exit_status,          \* <<>> while running, <<status>> once exited
    output,               \* what was written, in order, as "stream:text"
    calls,                \* collaborator calls, in order, with their status
    pattoo_home,          \* main()'s local
    venv_dir,             \* main()'s local
    installation_dir,     \* main()'s local
    args,                 \* namespace returned by parser.parse_args()
    todo                  \* the calls left in the selected branch of main()

vars == <<argv, user, cwd, virtualenv_importable, pw_dir, EXEC_DIR, pc,
          exit_status, output, calls, pattoo_home, venv_dir,
          installation_dir, args, todo>>

host == <<argv, user, cwd, virtualenv_importable, pw_dir, EXEC_DIR>>

locals == <<pattoo_home, venv_dir, installation_dir>>

-----------------------------------------------------------------------------
(* Bounds and input sets *)

MaxArgs == 3

Qualifiers == {"all", "pip", "configuration", "systemd"}

OptionTokens == {"--verbose", "--help", "--bogus"}

PositionalTokens == {"install", "bogus"} \cup Qualifiers

Tokens == PositionalTokens \cup OptionTokens

Users == {"root", "travis", "alice"}

NoEntry == <<"<KeyError>">>

Unset == <<"<unset>">>

None == "None"

RECURSIVE SeqsUpTo(_, _)
SeqsUpTo(S, n) ==
    IF n = 0 THEN {<<>>}
    ELSE LET shorter == SeqsUpTo(S, n - 1)
         IN  shorter \cup {Append(s, t) : s \in shorter, t \in S}

Range(s) == {s[i] : i \in 1..Len(s)}

UserHome(u) == IF u = "root" THEN <<"root">> ELSE <<"home", u>>

ExecDirs == {<<"opt", "pattoo-agent-linux", "setup">>, <<"tmp", "setup">>}

WorkDirs == {<<"opt", "pattoo-agent-linux">>,
             <<"home", "alice", "pattoo-agent-linux">>,
             <<"homestead", "pattoo-agent-linux">>}

PwDirs == {NoEntry, <<"nonexistent">>, <<"home", "pattoo">>,
           <<"var", "lib", "pattoo">>}

-----------------------------------------------------------------------------
(* Module level, lines 11-32 *)

_EXPECTED == <<"pattoo-agent-linux", "setup">>

endswith(path, suffix) ==
    /\ Len(path) >= Len(suffix)
    /\ SubSeq(path, Len(path) - Len(suffix) + 1, Len(path)) = suffix

ROOT_DIR == SubSeq(EXEC_DIR, 1, Len(EXEC_DIR) - 1)

default_path ==
    UserHome(user) \o <<".local", "lib", "python3.6", "site-packages">>

-----------------------------------------------------------------------------
(* Command line, lines 44-214 *)

\* The subcommands add_parser registers below each parser: 'install' below
\* the top-level parser (line 119), the four qualifiers below 'install'
\* (lines 152, 174, 195, 211); the qualifier parsers have no subcommands.
Choices(level) ==
    IF level = "top" THEN {"install"}
    ELSE IF level = "install" THEN Qualifiers
    ELSE {}

\* The parsers to which add_argument('--verbose') is applied: 'all' (line
\* 158) and 'pip' (line 179), not 'configuration' and not 'systemd'.
AcceptsVerbose(level) == level \in {"all", "pip"}

\* A parser that has a subparsers action (lines 96, 124).
HasSubparsers(level) == level \in {"top", "install"}

\* Namespace after a successful parse.  The attribute 'qualifier' is None
\* until a qualifier parser is selected; 'verbose' exists only for 'all' and
\* 'pip' (store_true, default False), and is FALSE here otherwise.
Namespace(action, qualifier, verbose) ==
    [kind |-> "ok", action |-> action, qualifier |-> qualifier,
     verbose |-> verbose]

ParseExit(kind) ==
    [kind |-> kind, action |-> None, qualifier |-> None, verbose |-> FALSE]

\* _Parser.parse_args(): argparse scans the arguments left to right.  In
\* each parser an option it knows is applied (--help prints the help and
\* exits 0), an option it does not know is kept as unrecognized, the first
\* positional selects the subcommand (an invalid choice calls error()) and
\* hands the remaining arguments to that subcommand's parser; a parser with
\* no subcommands keeps a positional as unrecognized.  Unrecognized
\* arguments left at the end call error().
RECURSIVE parse_known_args(_, _, _, _, _, _, _)
parse_known_args(av, i, level, action, qualifier, verbose, extras) ==
    IF i > Len(av)
    THEN IF extras THEN ParseExit("error")
         ELSE Namespace(action, qualifier, verbose)
    ELSE LET tok == av[i] IN
         IF tok \in OptionTokens
         THEN IF tok = "--help" THEN ParseExit("help")
              ELSE IF tok = "--verbose" /\ AcceptsVerbose(level)
              THEN parse_known_args(av, i + 1, level, action, qualifier,
                                    TRUE, extras)
              ELSE parse_known_args(av, i + 1, level, action, qualifier,
                                    verbose, TRUE)
         ELSE IF HasSubparsers(level)
              THEN IF tok \notin Choices(level) THEN ParseExit("error")
                   ELSE IF level = "top"
                   THEN parse_known_args(av, i + 1, tok, tok, qualifier,
                                         verbose, extras)
                   ELSE parse_known_args(av, i + 1, tok, action, tok,
                                         verbose, extras)
              ELSE parse_known_args(av, i + 1, level, action, qualifier,
                                    verbose, TRUE)

\* Parser.args(), lines 76-110.
Parser_args(av) ==
    IF Len(av) = 0 THEN ParseExit("noargs")
    ELSE parse_known_args(av, 1, "top", None, None, FALSE, FALSE)

\* error() that exits without printing the help.
_Parser_error_no_help == [output |-> <<"stderr:ERROR">>, status |-> 2]

\* error() that exits with status 1.
_Parser_error_status_1 ==
    [output |-> <<"stderr:ERROR", "stdout:help">>, status |-> 1]

\* _Parser.error(), lines 47-62: the message, the help, exit status 2.
_Parser_error == [output |-> <<"stderr:ERROR", "stdout:help">>, status |-> 2]

-----------------------------------------------------------------------------
(* Collaborators outside this file *)

\* shared.log(message): writes the message and returns to its caller.
shared_log(message) == [output |-> <<message>>, returns |-> TRUE]

\* shared.run_script(command): runs the command and returns to its caller.
shared_run_script(command) ==
    [name |-> "shared.run_script", args |-> [command |-> command],
     status |-> "returned"]

\* pwd.getpwnam('pattoo'): the record's pw_dir, or KeyError without a record.
getpwnam(entry) ==
    IF entry = NoEntry THEN [raised |-> "KeyError", pw_dir |-> Unset]
    ELSE [raised |-> None, pw_dir |-> entry]

StepNames == {"configure.install", "packages.install", "systemd.install"}

-----------------------------------------------------------------------------
(* installation_checks(), lines 217-247 *)

NotRootMessage == "log:You are currently not running the script as root"

HomeDirMessage == "log:You cloned the repository in a home related directory"

VirtualenvMessage == "stdout:virtualenv is not installed"

\* os.getcwd().startswith('/home'): a prefix of the string, so of the first
\* component; "/homestead" starts with "/home" too.
startswith_home(dir) == Len(dir) > 0 /\ dir[1] \in {"home", "homestead"}

\* installation_checks() that stops the process on a violation.
installation_checks_halting(u, dir, importable, pip_target) ==
    IF u # "travis" /\ (u # "root" \/ startswith_home(dir))
    THEN [output |-> <<NotRootMessage>>, calls |-> <<>>, returns |-> FALSE]
    ELSE [output |-> <<>>, calls |-> <<>>, returns |-> TRUE]

\* The result of the function: what it writes, the scripts it runs, and
\* whether it returns to main() (it does unless a call inside it does not).
installation_checks(u, dir, importable, pip_target) ==
    IF u # "travis"
    THEN LET user_check == IF u # "root" THEN shared_log(NotRootMessage)
                           ELSE [output |-> <<>>, returns |-> TRUE]
             dir_check  == IF startswith_home(dir)
                           THEN shared_log(HomeDirMessage)
                           ELSE [output |-> <<>>, returns |-> TRUE]
         IN  IF ~user_check.returns
             THEN [output |-> user_check.output, calls |-> <<>>,
                   returns |-> FALSE]
             ELSE IF ~dir_check.returns
             THEN [output |-> user_check.output \o dir_check.output,
                   calls |-> <<>>, returns |-> FALSE]
             ELSE IF importable
             THEN [output |-> user_check.output \o dir_check.output,
                   calls |-> <<>>, returns |-> TRUE]
             ELSE [output |-> user_check.output \o dir_check.output
                                \o <<VirtualenvMessage>>,
                   calls |-> <<shared_run_script(
                       <<"pip3 install virtualenv -t", pip_target>>)>>,
                   returns |-> TRUE]
    ELSE [output |-> <<>>, calls |-> <<>>, returns |-> TRUE]

-----------------------------------------------------------------------------
(* get_pattoo_home(), lines 250-271 *)

\* get_pattoo_home() without the test of line 268.
get_pattoo_home_no_sentinel(entry) ==
    LET lookup == getpwnam(entry)
    IN  [raised |-> lookup.raised \notin {None, "KeyError"},
         value  |-> IF lookup.raised = "KeyError" THEN <<"home", "pattoo">>
                    ELSE lookup.pw_dir]

get_pattoo_home(entry) ==
    LET lookup == getpwnam(entry)
        found  == IF lookup.raised = "KeyError" THEN <<"home", "pattoo">>
                  ELSE lookup.pw_dir
    IN  [raised |-> lookup.raised \notin {None, "KeyError"},
         value  |-> IF found = <<"nonexistent">> THEN <<"home", "pattoo">>
                    ELSE found]

-----------------------------------------------------------------------------
(* main(), lines 274-347 *)

template_dir == ROOT_DIR \o <<"setup", "systemd", "system">>

\* The daemons in another order.
daemon_list_reordered == <<"pattoo_agent_linux_hubd",
                           "pattoo_agent_linux_spoked",
                           "pattoo_agent_linux_autonomousd">>

daemon_list == <<"pattoo_agent_linux_autonomousd",
                 "pattoo_agent_linux_spoked",
                 "pattoo_agent_linux_hubd">>

\* 'all' with the packages installed before the configuration is written.
StepsFor_reordered(qualifier) ==
    IF qualifier = "all"
    THEN <<"packages.install", "configure.install", "systemd.install">>
    ELSE IF qualifier = "configuration" THEN <<"configure.install">>
    ELSE IF qualifier = "pip" THEN <<"packages.install">>
    ELSE IF qualifier = "systemd" THEN <<"systemd.install">>
    ELSE <<>>

\* 'pip' falling through to the systemd installation.
StepsFor_pip_falls_through(qualifier) ==
    IF qualifier = "all"
    THEN <<"configure.install", "packages.install", "systemd.install">>
    ELSE IF qualifier = "configuration" THEN <<"configure.install">>
    ELSE IF qualifier = "pip" THEN <<"packages.install", "systemd.install">>
    ELSE IF qualifier = "systemd" THEN <<"systemd.install">>
    ELSE <<>>

\* The collaborator calls of the branch main() takes for a qualifier, in
\* the order of the statements (lines 317-340); the else branch (line 342)
\* calls none.
StepsFor(qualifier) ==
    IF qualifier = "all"
    THEN <<"configure.install", "packages.install", "systemd.install">>
    ELSE IF qualifier = "configuration" THEN <<"configure.install">>
    ELSE IF qualifier = "pip" THEN <<"packages.install">>
    ELSE IF qualifier = "systemd" THEN <<"systemd.install">>
    ELSE <<>>

\* The line each branch prints first (lines 318, 327, 332, 337).
Banner(qualifier) ==
    IF qualifier = "all" THEN "stdout:Installing everything"
    ELSE IF qualifier = "configuration" THEN "stdout:Installing configuration"
    ELSE IF qualifier = "pip" THEN "stdout:Installing pip packages"
    ELSE "stdout:Installing and running system daemons"

\* The arguments main() passes to each collaborator (lines 319-323).
configure_args(daemons, home) ==
    [daemon_list |-> daemons, pattoo_home |-> home]

\* packages.install called without the flag of the command line.
packages_args_verbose_off(root, venv, verbose) ==
    [root_dir |-> root, venv_dir |-> venv, verbose |-> FALSE]

packages_args(root, venv, verbose) ==
    [root_dir |-> root, venv_dir |-> venv, verbose |-> verbose]

systemd_args(daemons, templates, invocation) ==
    [daemon_list |-> daemons, template_dir |-> templates,
     installation_dir |-> invocation]

CallArgs(name) ==
    IF name = "configure.install"
    THEN configure_args(daemon_list, pattoo_home)
    ELSE IF name = "packages.install"
    THEN packages_args(ROOT_DIR, venv_dir, args.verbose)
    ELSE systemd_args(daemon_list, template_dir, installation_dir)

\* main() catching the exception of a collaborator and going on.
AfterCall_ignores_raise(ok) == "steps"

\* What happens after a collaborator call ends: an exception is not caught
\* anywhere in main(), so the process ends with a traceback and status 1.
AfterCall(ok) == IF ok THEN "steps" ELSE "exit"

Exit(status, written) ==
    /\ pc' = "exit"
    /\ exit_status' = <<status>>
    /\ output' = output \o written

MarkLast(status) ==
    [calls EXCEPT ![Len(calls)] = [@ EXCEPT !.status = status]]

Init ==
    /\ argv \in SeqsUpTo(Tokens, MaxArgs)
    /\ user \in Users
    /\ cwd \in WorkDirs
    /\ virtualenv_importable \in BOOLEAN
    /\ pw_dir \in PwDirs
    /\ EXEC_DIR \in ExecDirs
    /\ pc = "location"
    /\ exit_status = <<>>
    /\ output = <<>>
    /\ calls = <<>>
    /\ pattoo_home = Unset
    /\ venv_dir = Unset
    /\ installation_dir = Unset
    /\ args = ParseExit("unparsed")
    /\ todo = <<>>

\* Lines 11-25: the script must live in .../pattoo-agent-linux/setup.
LocationCheck ==
    /\ pc = "location"
    /\ IF endswith(EXEC_DIR, _EXPECTED)
       THEN /\ pc' = "checks"
            /\ UNCHANGED <<exit_status, output>>
       ELSE Exit(2, <<"stdout:This script is not installed in the directory">>)
    /\ UNCHANGED <<host, calls, locals, args, todo>>

\* Line 294.  Checks that do not return end the process there.
InstallationChecks ==
    /\ pc = "checks"
    /\ LET r == installation_checks(user, cwd, virtualenv_importable,
                                    default_path)
       IN  /\ calls' = calls \o r.calls
           /\ IF r.returns
              THEN /\ pc' = "env"
                   /\ output' = output \o r.output
                   /\ UNCHANGED exit_status
              ELSE Exit(3, r.output)
    /\ UNCHANGED <<host, locals, args, todo>>

\* Lines 297-300: the call of environment.environment_setup(venv_dir).
SetupEnvironment ==
    /\ pc = "env"
    /\ user # "travis"
    /\ LET home == get_pattoo_home(pw_dir)
       IN  IF home.raised
           THEN /\ Exit(1, <<"stderr:Traceback">>)
                /\ UNCHANGED <<calls, pattoo_home, venv_dir>>
           ELSE /\ pattoo_home' = home.value
                /\ venv_dir' = home.value \o <<"pattoo-venv">>
                /\ calls' = Append(calls,
                      [name |-> "environment.environment_setup",
                       args |-> [venv_dir |-> home.value \o <<"pattoo-venv">>],
                       status |-> "running"])
                /\ pc' = "env_call"
                /\ UNCHANGED <<exit_status, output>>
    /\ UNCHANGED <<host, installation_dir, args, todo>>

\* Lines 300-302: environment_setup returns, or raises and ends the process.
EnvironmentSetupReturns ==
    /\ pc = "env_call"
    /\ \E ok \in BOOLEAN :
          IF ok
          THEN /\ calls' = MarkLast("returned")
               /\ installation_dir' =
                     <<venv_dir \o <<"bin", "python3">>, ROOT_DIR>>
               /\ pc' = "cli"
               /\ UNCHANGED <<exit_status, output>>
          ELSE /\ calls' = MarkLast("raised")
               /\ Exit(1, <<"stderr:Traceback">>)
               /\ UNCHANGED installation_dir
    /\ UNCHANGED <<host, pattoo_home, venv_dir, args, todo>>

\* Lines 303-307: the defaults for travis.
TravisDefaults ==
    /\ pc = "env"
    /\ user = "travis"
    /\ pattoo_home' = UserHome(user) \o <<"pattoo">>
    /\ venv_dir' = default_path
    /\ installation_dir' = <<ROOT_DIR>>
    /\ pc' = "cli"
    /\ UNCHANGED <<host, exit_status, output, calls, args, todo>>

\* Lines 310-311 with Parser.args(), lines 101-107.
ProcessCLI ==
    /\ pc = "cli"
    /\ LET parsed == Parser_args(argv)
       IN  /\ args' = parsed
           /\ IF parsed.kind = "noargs" THEN Exit(1, <<"stderr:help">>)
              ELSE IF parsed.kind = "error"
              THEN Exit(_Parser_error.status, _Parser_error.output)
              ELSE IF parsed.kind = "help" THEN Exit(0, <<"stdout:help">>)
              ELSE /\ pc' = "dispatch"
                   /\ UNCHANGED <<exit_status, output>>
    /\ UNCHANGED <<host, calls, locals, todo>>

\* Lines 314-344: the branch on args.action and args.qualifier.
Dispatch ==
    /\ pc = "dispatch"
    /\ IF args.action # "install"
       THEN /\ Exit(0, <<>>)
            /\ UNCHANGED todo
       ELSE IF args.qualifier \in Qualifiers
       THEN /\ todo' = StepsFor(args.qualifier)
            /\ output' = Append(output, Banner(args.qualifier))
            /\ pc' = "steps"
            /\ UNCHANGED exit_status
       ELSE /\ Exit(1, <<"stderr:help">>)
            /\ UNCHANGED todo
    /\ UNCHANGED <<host, calls, locals, args>>

\* A call of configure.install, packages.install or systemd.install.
StepCall ==
    /\ pc = "steps"
    /\ todo # <<>>
    /\ calls' = Append(calls, [name |-> Head(todo),
                               args |-> CallArgs(Head(todo)),
                               status |-> "running"])
    /\ pc' = "in_call"
    /\ UNCHANGED <<host, exit_status, output, locals, args, todo>>

\* The call returns, or raises and ends the process.
StepReturn ==
    /\ pc = "in_call"
    /\ \E ok \in BOOLEAN :
          /\ calls' = MarkLast(IF ok THEN "returned" ELSE "raised")
          /\ IF AfterCall(ok) = "steps"
             THEN /\ pc' = "steps"
                  /\ todo' = Tail(todo)
                  /\ UNCHANGED <<exit_status, output>>
             ELSE /\ Exit(1, <<"stderr:Traceback">>)
                  /\ UNCHANGED todo
    /\ UNCHANGED <<host, locals, args>>

\* Line 347, then main() returns and the process exits with status 0.
PrintDone ==
    /\ pc = "steps"
    /\ todo = <<>>
    /\ Exit(0, <<"stdout:Done">>)
    /\ UNCHANGED <<host, calls, locals, args, todo>>

Next ==
    \/ LocationCheck
    \/ InstallationChecks
    \/ SetupEnvironment
    \/ EnvironmentSetupReturns
    \/ TravisDefaults
    \/ ProcessCLI
    \/ Dispatch
    \/ StepCall
    \/ StepReturn
    \/ PrintDone

Spec == Init /\ [][Next]_vars

-----------------------------------------------------------------------------
(* Vocabulary of the properties *)

IsStep(c) == c.name \in StepNames

\* The calls of the three installation steps, in the order they were made.
StepCalls == SelectSeq(calls, IsStep)

Names(cs) == [i \in 1..Len(cs) |-> cs[i].name]

IsPrefix(a, b) == Len(a) <= Len(b) /\ a = SubSeq(b, 1, Len(a))

Written(text) == \E i \in 1..Len(output) : output[i] = text

DonePrinted == Written("stdout:Done")

HelpWritten == Written("stdout:help") \/ Written("stderr:help")

Exited == pc = "exit"

NoRaise == \A i \in 1..Len(calls) : calls[i].status # "raised"

AllReturned(cs) == \A i \in 1..Len(cs) : cs[i].status = "returned"

LocationOk == endswith(EXEC_DIR, _EXPECTED)

\* The run got as far as parsing the command line.
CliReached == args.kind # "unparsed"

EnvironmentSetupCalled ==
    \E i \in 1..Len(calls) : calls[i].name = "environment.environment_setup"

AllSteps == <<"configure.install", "packages.install", "systemd.install">>

\* The table of section 4.4 of the specification.
SelectedSteps(q) ==
    CASE q = "all" -> AllSteps
      [] q = "configuration" -> <<"configure.install">>
      [] q = "pip" -> <<"packages.install">>
      [] q = "systemd" -> <<"systemd.install">>
      [] OTHER -> <<>>

InstallAllRun ==
    argv \in {<<"install", "all">>, <<"install", "all", "--verbose">>}

SingleStepRun(q) ==
    \/ argv = <<"install", q>>
    \/ q = "pip" /\ argv = <<"install", "pip", "--verbose">>

\* install <q> with a q that is none of the four qualifiers.
UnrecognizedQualifierRun ==
    /\ Len(argv) >= 2
    /\ argv[1] = "install"
    /\ argv[2] \in PositionalTokens \ Qualifiers

VerboseGiven == "--verbose" \in Range(argv)

-----------------------------------------------------------------------------
(* C1 *)

\* C1: in a run of `install all` the steps are called in the order
\* configure.install, packages.install, systemd.install, each at most once,
\* a step is called only after the one before it has returned, 'Done' is
\* printed only after systemd.install has returned, and when no
\* collaborator raises the run ends with all three called and 'Done'.
C1_InstallAllOrder ==
    InstallAllRun =>
       /\ IsPrefix(Names(StepCalls), AllSteps)
       /\ \A i \in 1..Len(StepCalls) :
             i < Len(StepCalls) => StepCalls[i].status = "returned"
       /\ DonePrinted =>
             /\ Names(StepCalls) = AllSteps
             /\ AllReturned(StepCalls)
             /\ output[Len(output)] = "stdout:Done"
       /\ (Exited /\ LocationOk /\ NoRaise) =>
             /\ Names(StepCalls) = AllSteps
             /\ DonePrinted

C1_Witness ==
    /\ InstallAllRun
    /\ DonePrinted
    /\ Names(StepCalls) = AllSteps

-----------------------------------------------------------------------------
(* C2 *)

\* C2: in a run of `install configuration`, `install pip` or `install
\* systemd` the steps called so far are always a subset of the one step of
\* the qualifier, that step is called at most once, and when no collaborator
\* raises the run ends with it called exactly once.
C2_SingleStepOnly ==
    \A q \in {"configuration", "pip", "systemd"} :
       SingleStepRun(q) =>
          /\ Len(StepCalls) <= 1
          /\ \A i \in 1..Len(StepCalls) :
                <<StepCalls[i].name>> = SelectedSteps(q)
          /\ (Exited /\ LocationOk /\ NoRaise) =>
                /\ Len(StepCalls) = 1
                /\ DonePrinted

C2_Witness ==
    /\ argv = <<"install", "pip">>
    /\ Names(StepCalls) = <<"packages.install">>
    /\ DonePrinted

-----------------------------------------------------------------------------
(* C3 *)

-----------------------------------------------------------------------------
(* C4 *)

\* C4, as claimed: status 0 when the selected steps return normally, 1 with
\* no arguments, 1 with an unrecognized qualifier, and 2 only for a wrong
\* location of the script or a parsing failure that is not an unrecognized
\* qualifier.
C4_ExitStatusAsDocumented ==
    Exited =>
       /\ DonePrinted => exit_status = <<0>>
       /\ (argv = <<>> /\ LocationOk) => exit_status = <<1>>
       /\ (UnrecognizedQualifierRun /\ CliReached) => exit_status = <<1>>
       /\ exit_status = <<2>> =>
             \/ ~LocationOk
             \/ args.kind = "error" /\ ~UnrecognizedQualifierRun

\* C4, amended: status 0 when the selected steps return normally; 1 with no
\* arguments (the help on standard error once parsing is reached) and 1
\* for `install` without a qualifier; an unrecognized qualifier is a
\* parsing failure and gives 2; the status is 2 exactly when parsing fails
\* or the script is not in .../pattoo-agent-linux/setup.
C4_ExitStatus ==
    Exited =>
       /\ DonePrinted => exit_status = <<0>>
       /\ (argv = <<>> /\ LocationOk) => exit_status = <<1>>
       /\ (argv = <<>> /\ CliReached) => Written("stderr:help")
       /\ (argv = <<"install">> /\ CliReached) => exit_status = <<1>>
       /\ (UnrecognizedQualifierRun /\ CliReached) => exit_status = <<2>>
       /\ exit_status = <<2>> <=> (~LocationOk \/ args.kind = "error")

C4_Witness ==
    /\ Exited
    /\ UnrecognizedQualifierRun
    /\ argv[2] = "install"
    /\ args.kind = "error"
    /\ exit_status = <<2>>

-----------------------------------------------------------------------------
(* C5 *)

C5_State ==
    /\ DonePrinted <=>
          /\ Exited
          /\ args.kind = "ok"
          /\ args.qualifier \in Qualifiers
          /\ Names(StepCalls) = SelectedSteps(args.qualifier)
          /\ AllReturned(StepCalls)
    /\ \A i \in 1..Len(StepCalls) :
          StepCalls[i].status = "raised" =>
             /\ i = Len(StepCalls)
             /\ Exited
             /\ ~DonePrinted
             /\ exit_status = <<1>>
    /\ \A i, j \in 1..Len(StepCalls) :
          i # j => StepCalls[i].name # StepCalls[j].name

C5_Step ==
    \A i \in 1..Len(calls) :
       calls[i].status = "returned" =>
          /\ Len(calls') >= i
          /\ calls'[i] = calls[i]

\* C5: 'Done' is printed exactly when the run has ended with every step of
\* the qualifier called and returned; a step that raises is the last one
\* called, ends the process with status 1 and without 'Done'; no step is
\* called twice; and the record of a step that returned is never undone.
C5_DoneIffAllStepsReturned == []C5_State /\ [][C5_Step]_vars

C5_Witness ==
    /\ Exited
    /\ Len(StepCalls) = 2
    /\ StepCalls[1].status = "returned"
    /\ StepCalls[2].status = "raised"
    /\ ~DonePrinted

-----------------------------------------------------------------------------
(* C6 *)

FixedDaemons == <<"pattoo_agent_linux_autonomousd",
                  "pattoo_agent_linux_spoked",
                  "pattoo_agent_linux_hubd">>

\* A finished run of `install configuration` without a pattoo user, in which
\* no collaborator raised.
ConfigurationScenario ==
    /\ argv = <<"install", "configuration">>
    /\ pw_dir = NoEntry
    /\ LocationOk
    /\ Exited
    /\ NoRaise

ConfigureCalledOnceThenDone ==
    /\ Len(StepCalls) = 1
    /\ StepCalls[1].name = "configure.install"
    /\ StepCalls[1].args = [daemon_list |-> FixedDaemons,
                            pattoo_home |-> <<"home", "pattoo">>]
    /\ StepCalls[1].status = "returned"
    /\ DonePrinted
    /\ output[Len(output)] = "stdout:Done"

\* C6, as claimed: whoever the invoking user is, the scenario calls
\* configure.install once with the three daemons and /home/pattoo, then
\* prints 'Done'.
C6_AnyUser == ConfigurationScenario => ConfigureCalledOnceThenDone

\* C6, amended: the same for every invoking user other than travis.
C6_NotTravis ==
    (ConfigurationScenario /\ user # "travis") => ConfigureCalledOnceThenDone

C6_Witness ==
    /\ ConfigurationScenario
    /\ user = "alice"
    /\ ConfigureCalledOnceThenDone

-----------------------------------------------------------------------------
(* C7 *)

ResolvedHome(entry) ==
    IF entry = NoEntry \/ entry = <<"nonexistent">> THEN <<"home", "pattoo">>
    ELSE entry

\* C7: once main() has called get_pattoo_home() (any user but travis), the
\* call has returned, and pattoo_home is /home/pattoo without a pattoo
\* record or with the home /nonexistent, and the record's home otherwise;
\* it is never /nonexistent.
C7_PattooHome ==
    (user # "travis" /\ LocationOk /\ pc \notin {"location", "checks", "env"})
       => /\ pattoo_home = ResolvedHome(pw_dir)
          /\ pattoo_home # <<"nonexistent">>
          /\ EnvironmentSetupCalled

C7_Witness ==
    /\ user # "travis"
    /\ pw_dir = <<"nonexistent">>
    /\ pattoo_home = <<"home", "pattoo">>

-----------------------------------------------------------------------------
(* C8 *)

\* C8: packages.install is called only for pip and all, with verbose true
\* exactly when --verbose is on the command line; with --verbose a run of
\* `install configuration` or `install systemd` calls no step and prints no
\* 'Done', and ends in a parse error with status 2 (unless --help is also
\* given).
C8_VerbosePropagates ==
    /\ \A i \in 1..Len(calls) :
          calls[i].name = "packages.install" =>
             /\ args.qualifier \in {"pip", "all"}
             /\ calls[i].args.verbose = VerboseGiven
    /\ \A q \in {"configuration", "systemd"} :
          (Len(argv) >= 2 /\ argv[1] = "install" /\ argv[2] = q
             /\ VerboseGiven) =>
                /\ StepCalls = <<>>
                /\ ~DonePrinted
                /\ (CliReached /\ "--help" \notin Range(argv)) =>
                      /\ args.kind = "error"
                      /\ exit_status = <<2>>

C8_Witness ==
    /\ argv = <<"install", "pip", "--verbose">>
    /\ Len(StepCalls) = 1
    /\ StepCalls[1].args.verbose = TRUE
    /\ StepCalls[1].status = "returned"

-----------------------------------------------------------------------------
(* C9 *)

UsageError ==
    \/ args.kind \in {"noargs", "error"}
    \/ args.kind = "ok" /\ args.qualifier = None

\* C9: the command line is parsed before environment.environment_setup is
\* called, and a run that ends in a usage error has never called it.
C9_ParseBeforeSetup ==
    /\ EnvironmentSetupCalled => CliReached
    /\ (Exited /\ UsageError) => ~EnvironmentSetupCalled

-----------------------------------------------------------------------------
(* C10 *)

====
